---- MODULE Spec2Model ----
(***************************************************************************)
(* Model of event_connector_lib.client.Client: the incoming and outgoing    *)
(* event queues, the table of registered response callbacks, the           *)
(* dispatcher and sender threads, and the caller threads that run          *)
(* send_event / send_event_and_await_response.                             *)
(*                                                                         *)
(* Atomicity.  One action is one step that other threads can observe:      *)
(* a queue get/put, a dict membership test, a dict store, a dict lookup,   *)
(* a dict delete.  Statements that only touch the thread's own locals are  *)
(* folded into the shared-state step that precedes them.                   *)
(*                                                                         *)
(* Time.  Each caller carries the time it has spent inside its call        *)
(* (elapsed) and the time left on the blocking call it sits in (remain).   *)
(* Tick lets time pass only while every caller that is inside a call is    *)
(* blocked with nothing to take and the dispatcher is not between its      *)
(* membership test and its put, and never past the nearest deadline, so    *)
(* elapsed measures blocking time only.                                    *)
(***************************************************************************)
EXTENDS Integers, Sequences, FiniteSets

\* ------------------------------------------------------------------ bounds

NumCallers == 2
MaxPosts == 2
Quantum == 30
ShortTimeout == 10
MaxSends == 2

\* ------------------------------------------------------- program constants

WaitBudget == 30
DefaultTimeout == 60

\* ------------------------------------------------------------------ values

Callers == 1..NumCallers
ResponseTopics == {"R", "S"}
NoTopic == "None"
NoDest == "None"
NoHandler == "None"
BrokerAddress == "http://broker:10000/event"
CallbackAddress == "http://module:9000/event"
OtherBrokerAddress == "http://broker-b:10000/event"
OtherCallbackAddress == "http://module-b:9002/event"
PeerAddress == "http://peer:9001/event"
RequestTopic == "/sample/topic"
RegisterModuleTopic == "/zkms/register/module"
SubscribeTopic == "/zkms/register/topic"
UnsubscribeTopic == "/zkms/deregister/topic"
TopicLists == {<< "/a", "/b" >>, << "/b" >>}
Timeouts == {ShortTimeout, DefaultTimeout}

\* What the listener answers: an HTTP status and a body.  NoResponse: nothing
\* has been answered yet; Raised(x): the handler ended with exception x
\* before it sent a response.
Response(status, msg) == [status |-> status, msg |-> msg]

NoResponse == Response(0, "")

Raised(x) == Response(0, x)

\* The response topics caller c may name.  The topics are interchangeable and
\* callers start their calls in the order of their numbers, so the first
\* caller's topic is "R" without loss of generality.
TopicsOf(c) == IF c = 1 THEN {"R"} ELSE ResponseTopics

\* The arguments of send_event besides the response topic: a correlated
\* send, a callback on an event that requests no response, a plain send.
SendArgs ==
  {[response_requested |-> TRUE, callback |-> TRUE],
   [response_requested |-> FALSE, callback |-> TRUE],
   [response_requested |-> FALSE, callback |-> FALSE]}

VARIABLES
  incoming_events_queue,
  outgoing_events_queue,
  registered_response_callbacks,
  queues,
  receiver_func,
  receiver_func_queue,
  broker_host,
  dispatcher,
  sender,
  transmitted,
  th,
  posted,
  handled,
  failed,
  response,
  other

vars == << incoming_events_queue, outgoing_events_queue,
           registered_response_callbacks, queues, receiver_func,
           receiver_func_queue, broker_host, dispatcher, sender,
           transmitted, th, posted, handled, failed, response, other >>

\* ------------------------------------------------------------------ events

\* An Event object.  id, re and late are bookkeeping of the model: id tells
\* two events with equal headers apart (for an outgoing event it is the
\* caller that sent it), re is the caller whose request an incoming event
\* answers (0: none), late says that the event reached the listener after a
\* wait on its topic had timed out and that no wait on that topic was under
\* way when it arrived nor when the dispatcher handed it to a response queue.
\* has_response_requested: the header has the key response_requested.
\* payload, eventHandler and topics are what the payload holds: a number
\* that tells a caller's events apart, the callback address and the topic
\* list of a control event.  destination is the destination of a
\* BrokerEvent, NoDest for an Event.
Event(id, topic, respond_to, response_requested, re, late) ==
  [id |-> id, topic |-> topic, respond_to |-> respond_to,
   response_requested |-> response_requested,
   has_response_requested |-> TRUE, destination |-> NoDest,
   payload |-> 0, eventHandler |-> NoDest, topics |-> << >>,
   re |-> re, late |-> late]

NoEvent == Event(0, NoTopic, NoTopic, FALSE, 0, FALSE)

\* The data a caller passes to Event(data), by the keys it has.  event: the
\* key event is absent, null, or a header object; topic: the header's key
\* topic is absent, null or a topic; payload: the key payload is absent, null
\* or a payload; response_requested: the header's key response_requested is
\* absent, false or true.  The header names no respond_to.
EventData ==
  [event : {"absent", "null"}, topic : {"absent"},
   payload : {"absent", "null", "present"}, response_requested : {"absent"}]
  \cup [event : {"object"}, topic : {"absent", "null", RequestTopic},
        payload : {"absent", "null", "present"},
        response_requested : {"absent", "false", "true"}]

NoData ==
  [event |-> "none", topic |-> "absent", payload |-> "absent",
   response_requested |-> "absent"]

\* Event.__init__ without the check of lines 65-66 for the payload.
Event__init__SkipsPayload(data) ==
  IF data.event = "absent" THEN "ValueError"
  ELSE IF data.event = "null" THEN "TypeError"
  ELSE IF data.topic = "absent" THEN "ValueError"
  ELSE "Event"

\* Event.__init__, utils.py lines 63-69: the three membership tests in their
\* order ("topic" not in None is a TypeError), then the object exists.
Event__init__(data) ==
  IF data.event = "absent" THEN "ValueError"
  ELSE IF data.payload = "absent" THEN "ValueError"
  ELSE IF data.event = "null" THEN "TypeError"
  ELSE IF data.topic = "absent" THEN "ValueError"
  ELSE "Event"

\* The Event object built from data: header and payload are the data's
\* (lines 69-121), a null topic is None.
EventOf(id, data) ==
  [Event(id, IF data.topic = "null" THEN NoTopic ELSE data.topic, NoTopic,
         data.response_requested = "true", 0, FALSE)
     EXCEPT !.has_response_requested = (data.response_requested # "absent")]

response_requested(e) == e.response_requested

response_topic(e) == e.respond_to

IsBrokerEvent(e) == e.destination # NoDest

\* The events a caller may pass to send_event.
RequestEvent(c, rr, rt) == Event(c, RequestTopic, rt, rr, 0, FALSE)

\* The n-th event a caller passes to send_event when it makes plain sends
\* only: no response requested, the payload tells the caller's events apart.
OutboundEvent(c, n) ==
  [Event(c, RequestTopic, NoTopic, FALSE, 0, FALSE) EXCEPT !.payload = n]

\* The n-th event of a caller as a BrokerEvent with destination d.
BrokerEvent(c, n, d) == [OutboundEvent(c, n) EXCEPT !.destination = d]

\* The control event of _subscribe_topics and _unsubscribe_topics, lines
\* 139-148 and 152-161: no respond_to, response_requested false, the
\* client's own address and the topic list in the payload.
SubscriptionEvent(c, topic, topics) ==
  [Event(c, topic, NoTopic, FALSE, 0, FALSE)
     EXCEPT !.eventHandler = CallbackAddress, !.topics = topics]

\* The registration event of connect_broker, lines 242-260.
RegistrationEvent ==
  [Event(0, RegisterModuleTopic, "uuid-ResponseEvent", FALSE, 0, FALSE)
     EXCEPT !.eventHandler = CallbackAddress, !.topics = << "*" >>]

\* The registration event of the second client's connect_broker.
OtherRegistrationEvent ==
  [RegistrationEvent EXCEPT !.eventHandler = OtherCallbackAddress]

\* ----------------------------------------------------------------- threads

IdleCaller ==
  [pc |-> "idle", kind |-> "none", event |-> NoEvent, callback |-> FALSE,
   timeout |-> 0, response_queue |-> 0, response_event |-> NoEvent,
   wait |-> "none", called |-> 0, remain |-> 0, elapsed |-> 0,
   delivered |-> NoEvent, dispatchedAt |-> -1, outcome |-> "none",
   calls |-> 0, arg |-> << >>, data |-> NoData]

InCall(c) == th[c].pc \notin {"idle", "done"}

InAwait(c) ==
  th[c].pc \in {"await_check", "await_insert", "await_read", "await_get"}

WaitTopic(c) == response_topic(th[c].event)

\* A wait on topic t is pending: some caller is inside __await_event for t.
WaitPending(t) ==
  \E c \in Callers : InAwait(c) /\ WaitTopic(c) = t

\* A wait on topic t has timed out.
WaitTimedOut(t) ==
  \E c \in Callers : th[c].wait = "timeout" /\ WaitTopic(c) = t

\* A second Client instance of the process after its construction, lines
\* 43-71: the queues and the dict are attributes of the class (lines 43-48),
\* so this instance's threads work on the variables above; its own are the
\* broker address, the handler and its two threads.  sent, took and resolved
\* are bookkeeping: the events its sender took from the outgoing queue,
\* the events its dispatcher took from the incoming queue and the events its
\* dispatcher put on a response queue.
OtherClient ==
  [broker_host |-> NoDest, receiver_func |-> NoHandler,
   dispatcher |-> [pc |-> "get", event |-> NoEvent], sender |-> "running",
   transmitted |-> {}, sent |-> {}, took |-> {}, resolved |-> {}]

Init ==
  /\ incoming_events_queue = << >>
  /\ outgoing_events_queue = << >>
  /\ registered_response_callbacks = [t \in ResponseTopics |-> 0]
  /\ queues = << >>
  /\ receiver_func = NoHandler
  /\ receiver_func_queue = << >>
  /\ broker_host = NoDest
  /\ dispatcher = [pc |-> "get", event |-> NoEvent]
  /\ sender = "running"
  /\ transmitted = << >>
  /\ th = [c \in Callers |-> IdleCaller]
  /\ posted = 0
  /\ handled = << >>
  /\ failed = << >>
  /\ response = NoResponse
  /\ other = OtherClient

\* ------------------------------------------------------ queue primitives

_put_incoming_event_into_queue(e) ==
  incoming_events_queue' = Append(incoming_events_queue, e)

_put_outgoing_event_into_queue(e) ==
  outgoing_events_queue' = Append(outgoing_events_queue, e)

\* The dict __registered_response_callbacks: a topic maps to the index in
\* queues of its Queue object, 0 when the topic is no key of the dict.  A
\* Queue object keeps its identity (its index) after its entry is deleted.
InTable(t) == t \in ResponseTopics /\ registered_response_callbacks[t] # 0

TableStore(t, q) == [registered_response_callbacks EXCEPT ![t] = q]

TableDelete(t) == [registered_response_callbacks EXCEPT ![t] = 0]

QueuePut(q, e) == [queues EXCEPT ![q] = Append(@, e)]

QueueTake(q) == [queues EXCEPT ![q] = Tail(@)]

\* -------------------------------------------------------------- public API

\* Client.set_event_handler
SetEventHandler ==
  /\ receiver_func = NoHandler
  /\ receiver_func' = "handler"
  /\ UNCHANGED << incoming_events_queue, outgoing_events_queue,
                  registered_response_callbacks, queues, receiver_func_queue,
                  broker_host, dispatcher, sender, transmitted, th, posted,
                  handled, failed, response,
                  other >>

\* connect_broker with a registration event that requests a response.
ConnectBrokerRequestsResponse ==
  /\ broker_host = NoDest
  /\ broker_host' = BrokerAddress
  /\ _put_outgoing_event_into_queue(
       [RegistrationEvent EXCEPT !.response_requested = TRUE])
  /\ UNCHANGED << incoming_events_queue, registered_response_callbacks,
                  queues, receiver_func, receiver_func_queue, dispatcher,
                  sender, transmitted, th, posted,
                  handled, failed, response,
                  other >>

\* Client.connect_broker
ConnectBroker ==
  /\ broker_host = NoDest
  /\ broker_host' = BrokerAddress
  /\ _put_outgoing_event_into_queue(RegistrationEvent)
  /\ UNCHANGED << incoming_events_queue, registered_response_callbacks,
                  queues, receiver_func, receiver_func_queue, dispatcher,
                  sender, transmitted, th, posted,
                  handled, failed, response,
                  other >>

\* SendEventChecks without the check of lines 328-334 for a response topic.
SendEventChecksSkipsTopic(e, cb) ==
  IF ~cb THEN "return"
  ELSE IF ~e.has_response_requested THEN "KeyError"
  ELSE IF ~response_requested(e) THEN "ResponseCallbackError"
  ELSE "await"

\* What send_event does after the enqueue of line 316: the checks of lines
\* 318-336 on its arguments, which decide where the caller goes next.  Line
\* 321 reads event.response_requested, which is header["response_requested"]
\* (utils.py line 121): KeyError when the header has no such key.
SendEventChecks(e, cb) ==
  IF ~cb THEN "return"
  ELSE IF ~e.has_response_requested THEN "KeyError"
  ELSE IF ~response_requested(e) THEN "ResponseCallbackError"
  ELSE IF response_topic(e) = NoTopic THEN "ResponseCallbackError"
  ELSE "await"

\* The caller's record on entry to send_event / send_event_and_await_response.
EnterCall(c, kind, e, cb, timeout) ==
  LET next == SendEventChecks(e, cb) IN
  [th[c] EXCEPT !.kind = kind, !.event = e, !.callback = cb,
                !.timeout = timeout, !.calls = @ + 1,
                !.pc = IF next = "await" THEN "await_check" ELSE "done",
                !.outcome = IF next = "await" THEN "none"
                            ELSE IF next = "return" THEN "returned"
                            ELSE next]

\* Client.send_event, lines 316-336: the event is put on the outgoing queue,
\* then the arguments are checked.
send_event(c, e, cb) ==
  /\ th[c].pc = "idle"
  /\ (c > 1) => th[c - 1].pc # "idle"
  /\ _put_outgoing_event_into_queue(e)
  /\ th' = [th EXCEPT ![c] = EnterCall(c, "send_event", e, cb, 0)]
  /\ UNCHANGED << incoming_events_queue, registered_response_callbacks,
                  queues, receiver_func, receiver_func_queue, broker_host,
                  dispatcher, sender, transmitted, posted,
                  handled, failed, response,
                  other >>

\* line 319: send_event without a callback has returned and the thread is
\* ready for its next call (calls counts the calls the thread has made).
send_event_returns(c) ==
  /\ th[c].pc = "done"
  /\ th[c].outcome = "returned"
  /\ ~th[c].callback
  /\ th[c].calls < MaxSends
  /\ th' = [th EXCEPT ![c] = [IdleCaller EXCEPT !.calls = th[c].calls]]
  /\ UNCHANGED << incoming_events_queue, outgoing_events_queue,
                  registered_response_callbacks, queues, receiver_func,
                  receiver_func_queue, broker_host, dispatcher, sender,
                  transmitted, posted, handled, failed, response,
                  other >>

\* A thread calls Event(data): the constructor raises, which ends the thread's
\* work, or the thread holds the new object.
NewEvent(c, data) ==
  /\ th[c].pc = "idle"
  /\ (c > 1) => th[c - 1].pc # "idle"
  /\ th' = [th EXCEPT ![c] =
              [@ EXCEPT !.kind = "Event", !.data = data, !.calls = @ + 1,
                        !.pc = "done",
                        !.outcome = IF Event__init__(data) = "Event"
                                      THEN "returned"
                                      ELSE Event__init__(data),
                        !.event = IF Event__init__(data) = "Event"
                                    THEN EventOf(c, data)
                                    ELSE NoEvent]]
  /\ UNCHANGED << incoming_events_queue, outgoing_events_queue,
                  registered_response_callbacks, queues, receiver_func,
                  receiver_func_queue, broker_host, dispatcher, sender,
                  transmitted, posted, handled, failed, response,
                  other >>

\* A thread passes the Event it constructed to send_event, lines 316-336,
\* with or without a callback.
send_constructed_event(c, cb) ==
  /\ th[c].kind = "Event"
  /\ th[c].pc = "done"
  /\ th[c].outcome = "returned"
  /\ _put_outgoing_event_into_queue(th[c].event)
  /\ th' = [th EXCEPT ![c] = EnterCall(c, "send_event", th[c].event, cb, 0)]
  /\ UNCHANGED << incoming_events_queue, registered_response_callbacks,
                  queues, receiver_func, receiver_func_queue, broker_host,
                  dispatcher, sender, transmitted, posted,
                  handled, failed, response,
                  other >>

\* _subscribe_topics with the wildcard in place of the given topic list.
_subscribe_topics_wildcard(c, topics) ==
  /\ th[c].pc = "idle"
  /\ (c > 1) => th[c - 1].pc # "idle"
  /\ _put_outgoing_event_into_queue(
       SubscriptionEvent(c, SubscribeTopic, << "*" >>))
  /\ th' = [th EXCEPT ![c] =
              [EnterCall(c, "subscribe_topics",
                         SubscriptionEvent(c, SubscribeTopic, << "*" >>),
                         FALSE, 0)
                 EXCEPT !.arg = topics]]
  /\ UNCHANGED << incoming_events_queue, registered_response_callbacks,
                  queues, receiver_func, receiver_func_queue, broker_host,
                  dispatcher, sender, transmitted, posted, handled, failed,
                  response,
                  other >>

\* Client._subscribe_topics, lines 138-149: the control event is built and
\* passed to send_event without a callback (arg is the list the caller gave).
_subscribe_topics(c, topics) ==
  /\ th[c].pc = "idle"
  /\ (c > 1) => th[c - 1].pc # "idle"
  /\ _put_outgoing_event_into_queue(
       SubscriptionEvent(c, SubscribeTopic, topics))
  /\ th' = [th EXCEPT ![c] =
              [EnterCall(c, "subscribe_topics",
                         SubscriptionEvent(c, SubscribeTopic, topics),
                         FALSE, 0)
                 EXCEPT !.arg = topics]]
  /\ UNCHANGED << incoming_events_queue, registered_response_callbacks,
                  queues, receiver_func, receiver_func_queue, broker_host,
                  dispatcher, sender, transmitted, posted, handled, failed,
                  response,
                  other >>

\* Client._unsubscribe_topics, lines 151-162.
_unsubscribe_topics(c, topics) ==
  /\ th[c].pc = "idle"
  /\ (c > 1) => th[c - 1].pc # "idle"
  /\ _put_outgoing_event_into_queue(
       SubscriptionEvent(c, UnsubscribeTopic, topics))
  /\ th' = [th EXCEPT ![c] =
              [EnterCall(c, "unsubscribe_topics",
                         SubscriptionEvent(c, UnsubscribeTopic, topics),
                         FALSE, 0)
                 EXCEPT !.arg = topics]]
  /\ UNCHANGED << incoming_events_queue, registered_response_callbacks,
                  queues, receiver_func, receiver_func_queue, broker_host,
                  dispatcher, sender, transmitted, posted, handled, failed,
                  response,
                  other >>

\* Client.send_event_and_await_response, lines 365-373: calls send_event with
\* its own callback handle_response.
send_event_and_await_response(c, e, timeout) ==
  /\ th[c].pc = "idle"
  /\ (c > 1) => th[c - 1].pc # "idle"
  /\ _put_outgoing_event_into_queue(e)
  /\ th' = [th EXCEPT ![c] =
              EnterCall(c, "send_event_and_await_response", e, TRUE, timeout)]
  /\ UNCHANGED << incoming_events_queue, registered_response_callbacks,
                  queues, receiver_func, receiver_func_queue, broker_host,
                  dispatcher, sender, transmitted, posted,
                  handled, failed, response,
                  other >>

\* ------------------------------------------------------------ __await_event

\* line 180: the membership test.
AwaitCheck(c) ==
  /\ th[c].pc = "await_check"
  /\ th' = [th EXCEPT ![c].pc =
              IF InTable(WaitTopic(c)) THEN "await_read" ELSE "await_insert"]
  /\ UNCHANGED << incoming_events_queue, outgoing_events_queue,
                  registered_response_callbacks, queues, receiver_func,
                  receiver_func_queue, broker_host, dispatcher, sender,
                  transmitted, posted,
                  handled, failed, response,
                  other >>

\* line 181: a new Queue is stored under the topic.
AwaitInsert(c) ==
  /\ th[c].pc = "await_insert"
  /\ queues' = Append(queues, << >>)
  /\ registered_response_callbacks' = TableStore(WaitTopic(c), Len(queues) + 1)
  /\ th' = [th EXCEPT ![c].pc = "await_read"]
  /\ UNCHANGED << incoming_events_queue, outgoing_events_queue, receiver_func,
                  receiver_func_queue, broker_host, dispatcher, sender,
                  transmitted, posted,
                  handled, failed, response,
                  other >>

\* line 183: the lookup; the caller then enters get(timeout=30) of line 185.
AwaitRead(c) ==
  /\ th[c].pc = "await_read"
  /\ InTable(WaitTopic(c))
  /\ th' = [th EXCEPT ![c].pc = "await_get",
                      ![c].response_queue =
                         registered_response_callbacks[WaitTopic(c)],
                      ![c].remain = WaitBudget]
  /\ UNCHANGED << incoming_events_queue, outgoing_events_queue,
                  registered_response_callbacks, queues, receiver_func,
                  receiver_func_queue, broker_host, dispatcher, sender,
                  transmitted, posted,
                  handled, failed, response,
                  other >>

\* line 183 when the entry seen at line 180 has been deleted since: KeyError.
AwaitReadKeyError(c) ==
  /\ th[c].pc = "await_read"
  /\ ~InTable(WaitTopic(c))
  /\ th' = [th EXCEPT ![c].pc = "done", ![c].outcome = "KeyError"]
  /\ UNCHANGED << incoming_events_queue, outgoing_events_queue,
                  registered_response_callbacks, queues, receiver_func,
                  receiver_func_queue, broker_host, dispatcher, sender,
                  transmitted, posted,
                  handled, failed, response,
                  other >>

\* line 185: get returns the head of the queue.
AwaitGet(c) ==
  /\ th[c].pc = "await_get"
  /\ queues[th[c].response_queue] # << >>
  /\ queues' = QueueTake(th[c].response_queue)
  /\ th' = [th EXCEPT ![c].pc = "await_del", ![c].wait = "event",
                      ![c].response_event = Head(queues[th[c].response_queue])]
  /\ UNCHANGED << incoming_events_queue, outgoing_events_queue,
                  registered_response_callbacks, receiver_func,
                  receiver_func_queue, broker_host, dispatcher, sender,
                  transmitted, posted,
                  handled, failed, response,
                  other >>

\* Where a caller goes when __await_event returns to send_event and that to
\* its caller: send_event is over; send_event_and_await_response goes on to
\* response_received.wait(timeout) of line 374.
AfterAwait(c, outcome) ==
  IF th[c].kind = "send_event"
    THEN [th[c] EXCEPT !.pc = "done", !.outcome = outcome]
    ELSE [th[c] EXCEPT !.pc = "flag_wait", !.remain = th[c].timeout]

\* AwaitTimeout with the callback called on the timeout path as well.
AwaitTimeoutCallsBack(c) ==
  /\ th[c].pc = "await_get"
  /\ queues[th[c].response_queue] = << >>
  /\ th[c].remain = 0
  /\ th' = [th EXCEPT ![c] =
              [AfterAwait(c, "returned") EXCEPT !.wait = "timeout",
                                                !.called = th[c].called + 1]]
  /\ UNCHANGED << incoming_events_queue, outgoing_events_queue,
                  registered_response_callbacks, queues, receiver_func,
                  receiver_func_queue, broker_host, dispatcher, sender,
                  transmitted, posted,
                  handled, failed, response,
                  other >>

\* lines 186-191: queue.Empty after 30 seconds; the function returns None.
AwaitTimeout(c) ==
  /\ th[c].pc = "await_get"
  /\ queues[th[c].response_queue] = << >>
  /\ th[c].remain = 0
  /\ th' = [th EXCEPT ![c] = [AfterAwait(c, "returned") EXCEPT !.wait = "timeout"]]
  /\ UNCHANGED << incoming_events_queue, outgoing_events_queue,
                  registered_response_callbacks, queues, receiver_func,
                  receiver_func_queue, broker_host, dispatcher, sender,
                  transmitted, posted,
                  handled, failed, response,
                  other >>

\* AwaitDel without the delete of line 199.
AwaitDelKeepsEntry(c) ==
  /\ th[c].pc = "await_del"
  /\ InTable(WaitTopic(c))
  /\ th' = [th EXCEPT ![c] =
              [AfterAwait(c, "returned") EXCEPT !.called = th[c].called + 1]]
  /\ UNCHANGED << incoming_events_queue, outgoing_events_queue,
                  registered_response_callbacks, queues, receiver_func,
                  receiver_func_queue, broker_host, dispatcher, sender,
                  transmitted, posted,
                  handled, failed, response,
                  other >>

\* lines 199-201: the entry is deleted and the callback is called with the
\* response event.
AwaitDel(c) ==
  /\ th[c].pc = "await_del"
  /\ InTable(WaitTopic(c))
  /\ registered_response_callbacks' = TableDelete(WaitTopic(c))
  /\ th' = [th EXCEPT ![c] =
              [AfterAwait(c, "returned") EXCEPT !.called = th[c].called + 1]]
  /\ UNCHANGED << incoming_events_queue, outgoing_events_queue, queues,
                  receiver_func, receiver_func_queue, broker_host, dispatcher,
                  sender, transmitted, posted,
                  handled, failed, response,
                  other >>

\* line 199 when the topic is no key of the dict any more: KeyError, which
\* leaves send_event before the callback is called.
AwaitDelKeyError(c) ==
  /\ th[c].pc = "await_del"
  /\ ~InTable(WaitTopic(c))
  /\ th' = [th EXCEPT ![c].pc = "done", ![c].outcome = "KeyError"]
  /\ UNCHANGED << incoming_events_queue, outgoing_events_queue,
                  registered_response_callbacks, queues, receiver_func,
                  receiver_func_queue, broker_host, dispatcher, sender,
                  transmitted, posted,
                  handled, failed, response,
                  other >>

\* ------------------------------------------- send_event_and_await_response

\* lines 374-381 with the flag set by handle_response: the response event is
\* returned at once.
FlagWaitReturn(c) ==
  /\ th[c].pc = "flag_wait"
  /\ th[c].called > 0
  /\ th' = [th EXCEPT ![c].pc = "done", ![c].outcome = "returned"]
  /\ UNCHANGED << incoming_events_queue, outgoing_events_queue,
                  registered_response_callbacks, queues, receiver_func,
                  receiver_func_queue, broker_host, dispatcher, sender,
                  transmitted, posted,
                  handled, failed, response,
                  other >>

\* lines 374-379 with the flag not set: wait(timeout) runs to its end and
\* AwaitEventResponseTimeout is raised.
FlagWaitTimeout(c) ==
  /\ th[c].pc = "flag_wait"
  /\ th[c].called = 0
  /\ th[c].remain = 0
  /\ th' = [th EXCEPT ![c].pc = "done",
                      ![c].outcome = "AwaitEventResponseTimeout"]
  /\ UNCHANGED << incoming_events_queue, outgoing_events_queue,
                  registered_response_callbacks, queues, receiver_func,
                  receiver_func_queue, broker_host, dispatcher, sender,
                  transmitted, posted,
                  handled, failed, response,
                  other >>

\* ------------------------------------------------- __process_incoming_events

\* DispatchDiscard with the event kept for a handler registered later.
DispatchDiscardBuffers ==
  /\ dispatcher.pc = "get"
  /\ incoming_events_queue # << >>
  /\ receiver_func = NoHandler
  /\ incoming_events_queue' = Tail(incoming_events_queue)
  /\ receiver_func_queue' =
       Append(receiver_func_queue, Head(incoming_events_queue))
  /\ UNCHANGED << outgoing_events_queue, registered_response_callbacks, queues,
                  receiver_func, broker_host, dispatcher, sender, transmitted,
                  th, posted,
                  handled, failed, response,
                  other >>

\* lines 80-87: an event is taken while no handler is registered; discarded.
DispatchDiscard ==
  /\ dispatcher.pc = "get"
  /\ incoming_events_queue # << >>
  /\ receiver_func = NoHandler
  /\ incoming_events_queue' = Tail(incoming_events_queue)
  /\ UNCHANGED << outgoing_events_queue, registered_response_callbacks, queues,
                  receiver_func, receiver_func_queue, broker_host, dispatcher,
                  sender, transmitted, th, posted,
                  handled, failed, response,
                  other >>

\* lines 80-89: an event is taken and its topic is found in the dict.
DispatchMatch ==
  /\ dispatcher.pc = "get"
  /\ incoming_events_queue # << >>
  /\ receiver_func # NoHandler
  /\ InTable(Head(incoming_events_queue).topic)
  /\ incoming_events_queue' = Tail(incoming_events_queue)
  /\ dispatcher' = [pc |-> "put", event |-> Head(incoming_events_queue)]
  /\ UNCHANGED << outgoing_events_queue, registered_response_callbacks, queues,
                  receiver_func, receiver_func_queue, broker_host, sender,
                  transmitted, th, posted,
                  handled, failed, response,
                  other >>

\* lines 80-96: an event is taken, its topic is not in the dict, and it is
\* put on the queue of the application handler.
DispatchForward ==
  /\ dispatcher.pc = "get"
  /\ incoming_events_queue # << >>
  /\ receiver_func # NoHandler
  /\ ~InTable(Head(incoming_events_queue).topic)
  /\ incoming_events_queue' = Tail(incoming_events_queue)
  /\ receiver_func_queue' =
       Append(receiver_func_queue, Head(incoming_events_queue))
  /\ UNCHANGED << outgoing_events_queue, registered_response_callbacks, queues,
                  receiver_func, broker_host, dispatcher, sender, transmitted,
                  th, posted,
                  handled, failed, response,
                  other >>

\* The callers' records after event e has been handed to the response queue
\* of its topic (bookkeeping): a caller inside a call that names the topic
\* notes how long it had been in the call at the first such hand-over, and a
\* caller inside __await_event for the topic notes the first event handed over.
NoteDispatched(e) ==
  [c \in Callers |->
     IF InCall(c) /\ WaitTopic(c) = e.topic
       THEN [th[c] EXCEPT
               !.dispatchedAt = IF @ = -1 THEN th[c].elapsed ELSE @,
               !.delivered = IF @ = NoEvent /\ InAwait(c) THEN e ELSE @]
       ELSE th[c]]

\* The event as it lies in the response queue (bookkeeping, see Event).
HandedOver(e) ==
  [e EXCEPT !.late = e.late /\ ~WaitPending(e.topic)]

\* line 93: the dict lookup and the put on the response queue.
DispatchPut ==
  /\ dispatcher.pc = "put"
  /\ InTable(dispatcher.event.topic)
  /\ queues' = QueuePut(registered_response_callbacks[dispatcher.event.topic],
                        HandedOver(dispatcher.event))
  /\ th' = NoteDispatched(HandedOver(dispatcher.event))
  /\ dispatcher' = [pc |-> "get", event |-> NoEvent]
  /\ UNCHANGED << incoming_events_queue, outgoing_events_queue,
                  registered_response_callbacks, receiver_func,
                  receiver_func_queue, broker_host, sender, transmitted,
                  posted,
                  handled, failed, response,
                  other >>

\* line 93 when the entry seen at line 89 has been deleted since: KeyError,
\* which nothing catches; the thread ends.
DispatchKeyError ==
  /\ dispatcher.pc = "put"
  /\ ~InTable(dispatcher.event.topic)
  /\ dispatcher' = [pc |-> "dead", event |-> NoEvent]
  /\ UNCHANGED << incoming_events_queue, outgoing_events_queue,
                  registered_response_callbacks, queues, receiver_func,
                  receiver_func_queue, broker_host, sender, transmitted, th,
                  posted,
                  handled, failed, response,
                  other >>

\* ------------------------------------------------- __process_outgoing_events

\* DestinationUrl with the broker address used for every event.
DestinationUrlIgnoresDestination(e) == broker_host

\* lines 108-113: the destination of an event.
DestinationUrl(e) == IF IsBrokerEvent(e) THEN e.destination ELSE broker_host

\* Line 112 reads self.__broker_host, which connect_broker sets.
CanResolve(e) == IsBrokerEvent(e) \/ broker_host # NoDest

\* lines 100-120: an event is taken and posted.
SenderForward ==
  /\ sender = "running"
  /\ outgoing_events_queue # << >>
  /\ CanResolve(Head(outgoing_events_queue))
  /\ outgoing_events_queue' = Tail(outgoing_events_queue)
  /\ transmitted' =
       Append(transmitted,
              [event |-> Head(outgoing_events_queue),
               destination |-> DestinationUrl(Head(outgoing_events_queue))])
  /\ UNCHANGED << incoming_events_queue, registered_response_callbacks, queues,
                  receiver_func, receiver_func_queue, broker_host, dispatcher,
                  sender, th, posted,
                  handled, failed, response,
                  other >>

\* SenderFail with the event put back on the outgoing queue for a retry.
SenderFailRequeues ==
  /\ sender = "running"
  /\ outgoing_events_queue # << >>
  /\ CanResolve(Head(outgoing_events_queue))
  /\ outgoing_events_queue' =
       Append(Tail(outgoing_events_queue), Head(outgoing_events_queue))
  /\ failed' = Append(failed, Head(outgoing_events_queue))
  /\ UNCHANGED << incoming_events_queue, registered_response_callbacks, queues,
                  receiver_func, receiver_func_queue, broker_host, dispatcher,
                  sender, transmitted, th, posted, handled, response,
                  other >>

\* lines 100-128: an event is taken and requests.post raises; the error is
\* logged (failed is the log of line 127) and the event is gone.
SenderFail ==
  /\ sender = "running"
  /\ outgoing_events_queue # << >>
  /\ CanResolve(Head(outgoing_events_queue))
  /\ outgoing_events_queue' = Tail(outgoing_events_queue)
  /\ failed' = Append(failed, Head(outgoing_events_queue))
  /\ UNCHANGED << incoming_events_queue, registered_response_callbacks, queues,
                  receiver_func, receiver_func_queue, broker_host, dispatcher,
                  sender, transmitted, th, posted, handled, response,
                  other >>

\* lines 100-113 before connect_broker: self.__broker_host does not exist,
\* AttributeError, which the except clause does not name; the thread ends.
SenderCrash ==
  /\ sender = "running"
  /\ outgoing_events_queue # << >>
  /\ ~CanResolve(Head(outgoing_events_queue))
  /\ outgoing_events_queue' = Tail(outgoing_events_queue)
  /\ sender' = "dead"
  /\ UNCHANGED << incoming_events_queue, registered_response_callbacks, queues,
                  receiver_func, receiver_func_queue, broker_host, dispatcher,
                  transmitted, th, posted,
                  handled, failed, response,
                  other >>

\* ------------------------------------------------------- a second client

\* set_event_handler on the second client, line 221: an attribute of the
\* instance.
OtherSetEventHandler ==
  /\ other.receiver_func = NoHandler
  /\ other' = [other EXCEPT !.receiver_func = "handler-b"]
  /\ UNCHANGED << incoming_events_queue, outgoing_events_queue,
                  registered_response_callbacks, queues, receiver_func,
                  receiver_func_queue, broker_host, dispatcher, sender,
                  transmitted, th, posted, handled, failed, response >>

\* connect_broker on the second client, lines 239-261: its address is stored
\* in the instance, its registration event goes to the queue of the class.
OtherConnectBroker ==
  /\ other.broker_host = NoDest
  /\ other' = [other EXCEPT !.broker_host = OtherBrokerAddress]
  /\ _put_outgoing_event_into_queue(OtherRegistrationEvent)
  /\ UNCHANGED << incoming_events_queue, registered_response_callbacks,
                  queues, receiver_func, receiver_func_queue, broker_host,
                  dispatcher, sender, transmitted, th, posted, handled,
                  failed, response >>

OtherCanResolve(e) == IsBrokerEvent(e) \/ other.broker_host # NoDest

\* The second client's sender, lines 100-120: it takes the next event of the
\* class's outgoing queue and posts it to its own broker address.
OtherSenderForward ==
  /\ other.sender = "running"
  /\ outgoing_events_queue # << >>
  /\ OtherCanResolve(Head(outgoing_events_queue))
  /\ outgoing_events_queue' = Tail(outgoing_events_queue)
  /\ other' =
       [other EXCEPT
          !.sent = @ \cup {Head(outgoing_events_queue)},
          !.transmitted = @ \cup
            {[event |-> Head(outgoing_events_queue),
              destination |->
                IF IsBrokerEvent(Head(outgoing_events_queue))
                  THEN Head(outgoing_events_queue).destination
                  ELSE other.broker_host]}]
  /\ UNCHANGED << incoming_events_queue, registered_response_callbacks,
                  queues, receiver_func, receiver_func_queue, broker_host,
                  dispatcher, sender, transmitted, th, posted, handled,
                  failed, response >>

\* The second client's sender, lines 100-113, before its connect_broker:
\* AttributeError, the thread ends.
OtherSenderCrash ==
  /\ other.sender = "running"
  /\ outgoing_events_queue # << >>
  /\ ~OtherCanResolve(Head(outgoing_events_queue))
  /\ outgoing_events_queue' = Tail(outgoing_events_queue)
  /\ other' = [other EXCEPT !.sent = @ \cup {Head(outgoing_events_queue)},
                            !.sender = "dead"]
  /\ UNCHANGED << incoming_events_queue, registered_response_callbacks,
                  queues, receiver_func, receiver_func_queue, broker_host,
                  dispatcher, sender, transmitted, th, posted, handled,
                  failed, response >>

\* The second client's dispatcher, lines 80-87: no handler is registered on
\* this instance; the event is discarded.
OtherDispatchDiscard ==
  /\ other.dispatcher.pc = "get"
  /\ incoming_events_queue # << >>
  /\ other.receiver_func = NoHandler
  /\ incoming_events_queue' = Tail(incoming_events_queue)
  /\ other' = [other EXCEPT !.took = @ \cup {Head(incoming_events_queue)}]
  /\ UNCHANGED << outgoing_events_queue, registered_response_callbacks,
                  queues, receiver_func, receiver_func_queue, broker_host,
                  dispatcher, sender, transmitted, th, posted, handled,
                  failed, response >>

\* The second client's dispatcher, lines 80-89: the topic is in the dict.
OtherDispatchMatch ==
  /\ other.dispatcher.pc = "get"
  /\ incoming_events_queue # << >>
  /\ other.receiver_func # NoHandler
  /\ InTable(Head(incoming_events_queue).topic)
  /\ incoming_events_queue' = Tail(incoming_events_queue)
  /\ other' = [other EXCEPT
                 !.took = @ \cup {Head(incoming_events_queue)},
                 !.dispatcher =
                   [pc |-> "put", event |-> Head(incoming_events_queue)]]
  /\ UNCHANGED << outgoing_events_queue, registered_response_callbacks,
                  queues, receiver_func, receiver_func_queue, broker_host,
                  dispatcher, sender, transmitted, th, posted, handled,
                  failed, response >>

\* The second client's dispatcher, lines 80-96: the topic is not in the
\* dict; the event goes to the handler queue of the class.
OtherDispatchForward ==
  /\ other.dispatcher.pc = "get"
  /\ incoming_events_queue # << >>
  /\ other.receiver_func # NoHandler
  /\ ~InTable(Head(incoming_events_queue).topic)
  /\ incoming_events_queue' = Tail(incoming_events_queue)
  /\ receiver_func_queue' =
       Append(receiver_func_queue, Head(incoming_events_queue))
  /\ other' = [other EXCEPT !.took = @ \cup {Head(incoming_events_queue)}]
  /\ UNCHANGED << outgoing_events_queue, registered_response_callbacks,
                  queues, receiver_func, broker_host, dispatcher, sender,
                  transmitted, th, posted, handled, failed, response >>

\* The second client's dispatcher, line 93: the put on the response queue.
OtherDispatchPut ==
  /\ other.dispatcher.pc = "put"
  /\ InTable(other.dispatcher.event.topic)
  /\ queues' =
       QueuePut(registered_response_callbacks[other.dispatcher.event.topic],
                HandedOver(other.dispatcher.event))
  /\ th' = NoteDispatched(HandedOver(other.dispatcher.event))
  /\ other' = [other EXCEPT
                 !.resolved = @ \cup {other.dispatcher.event},
                 !.dispatcher = [pc |-> "get", event |-> NoEvent]]
  /\ UNCHANGED << incoming_events_queue, outgoing_events_queue,
                  registered_response_callbacks, receiver_func,
                  receiver_func_queue, broker_host, dispatcher, sender,
                  transmitted, posted, handled, failed, response >>

\* The second client's dispatcher, line 93, after the entry was deleted:
\* KeyError, the thread ends.
OtherDispatchKeyError ==
  /\ other.dispatcher.pc = "put"
  /\ ~InTable(other.dispatcher.event.topic)
  /\ other' = [other EXCEPT
                 !.dispatcher = [pc |-> "dead", event |-> NoEvent]]
  /\ UNCHANGED << incoming_events_queue, outgoing_events_queue,
                  registered_response_callbacks, queues, receiver_func,
                  receiver_func_queue, broker_host, dispatcher, sender,
                  transmitted, th, posted, handled, failed, response >>

\* ---------------------------------------------------------------- listener

\* The callers whose transmitted request asks for a response on topic t.
Requesters(t) ==
  {c \in Callers :
     \E i \in 1..Len(transmitted) :
       /\ transmitted[i].event.id = c
       /\ response_requested(transmitted[i].event)
       /\ response_topic(transmitted[i].event) = t}

\* A request body as do_POST sees it.  json: the bytes are no UTF-8 text
\* ("undecodable"), no JSON ("malformed"), JSON that is no object
\* ("not_object", such as [] or 42) or a JSON object ("object").  event and
\* payload: the key is absent, null, or present ("not_object": the event is
\* a string, a number or a list).  topic: the topic key of the event object,
\* absent, null or a topic.
Body(json, event, payload, topic) ==
  [json |-> json, event |-> event, payload |-> payload, topic |-> topic]

BodyTopics == ResponseTopics \cup {"/x"}

Bodies ==
  {Body(j, "absent", "absent", "absent") :
     j \in {"undecodable", "malformed", "not_object"}}
  \cup {Body("object", e, p, "absent") :
          e \in {"absent", "null", "not_object", "object"},
          p \in {"absent", "null", "present"}}
  \cup {Body("object", "object", p, t) :
          p \in {"absent", "null", "present"},
          t \in {"null"} \cup BodyTopics}

EventPath == "/event"

\* A POST: its path, whether it has a Content-Length header, its body.
Requests ==
  [path : {EventPath, "/other"}, content_length : BOOLEAN, body : Bodies]

\* _HTTPRequestHandler.do_POST, lines 492-530: what the handler answers.
Respond(req) ==
  IF req.path # EventPath THEN Response(404, "Not Found")
  ELSE IF ~req.content_length THEN Raised("TypeError")
  ELSE IF req.body.json = "undecodable" THEN Raised("UnicodeDecodeError")
  ELSE IF req.body.json = "malformed" THEN Response(400, "Invalid JSON")
  ELSE IF req.body.json = "not_object" THEN Raised("AttributeError")
  ELSE IF req.body.event \in {"absent", "null"}
            \/ req.body.payload \in {"absent", "null"}
    THEN Response(400, "Missing event or payload")
  ELSE IF req.body.event = "not_object" THEN Raised("AttributeError")
  ELSE IF req.body.topic \in {"absent", "null"}
    THEN Response(400, "Missing topic")
  ELSE Response(200, "{}")

\* do_POST_request with the event put on the incoming queue as soon as the
\* body is a JSON object with an event object, before the topic is looked at.
do_POST_request_enqueues_first(req) ==
  /\ posted < MaxPosts
  /\ response' = Respond(req)
  /\ IF /\ req.path = EventPath
        /\ req.content_length
        /\ req.body.json = "object"
        /\ req.body.event = "object"
        /\ req.body.payload = "present"
       THEN /\ posted' = posted + 1
            /\ _put_incoming_event_into_queue(
                 Event(posted + 1, req.body.topic, NoTopic, FALSE, 0, FALSE))
       ELSE UNCHANGED << posted, incoming_events_queue,
                  other >>
  /\ UNCHANGED << outgoing_events_queue, registered_response_callbacks, queues,
                  receiver_func, receiver_func_queue, broker_host, dispatcher,
                  sender, transmitted, th, handled, failed,
                  other >>

\* _HTTPRequestHandler.do_POST for any request: the answer, and on the way
\* to the answer 200 the event is put on the incoming queue (lines 519-522).
do_POST_request(req) ==
  /\ (Respond(req).status = 200) => posted < MaxPosts
  /\ response' = Respond(req)
  /\ IF Respond(req).status = 200
       THEN /\ posted' = posted + 1
            /\ _put_incoming_event_into_queue(
                 Event(posted + 1, req.body.topic, NoTopic, FALSE, 0,
                       WaitTimedOut(req.body.topic)
                         /\ ~WaitPending(req.body.topic)))
       ELSE UNCHANGED << posted, incoming_events_queue,
                  other >>
  /\ UNCHANGED << outgoing_events_queue, registered_response_callbacks, queues,
                  receiver_func, receiver_func_queue, broker_host, dispatcher,
                  sender, transmitted, th, handled, failed,
                  other >>

\* _HTTPRequestHandler.do_POST for a well-formed event with topic t, lines
\* 519-526: the event is put on the incoming queue and 200 is answered.  re
\* is the caller whose request the event answers, 0 for an event nobody
\* asked for.
do_POST(t, re) ==
  /\ posted < MaxPosts
  /\ posted' = posted + 1
  /\ _put_incoming_event_into_queue(
       Event(posted + 1, t, NoTopic, FALSE, re,
             WaitTimedOut(t) /\ ~WaitPending(t)))
  /\ response' = Response(200, "{}")
  /\ UNCHANGED << outgoing_events_queue, registered_response_callbacks, queues,
                  receiver_func, receiver_func_queue, broker_host, dispatcher,
                  sender, transmitted, th, handled, failed,
                  other >>

\* The listener accepts a POST: the answer to a transmitted request that asks
\* for a response on topic t, or an event with topic t nobody asked for.
Listener ==
  \E t \in ResponseTopics :
    \E re \in IF Requesters(t) = {} THEN {0} ELSE Requesters(t) :
      do_POST(t, re)

\* ---------------------------------------------------------- listen_forever

\* listen_forever taking the newest event of the handler queue first.
listen_forever_newest_first ==
  /\ receiver_func_queue # << >>
  /\ receiver_func_queue' =
       SubSeq(receiver_func_queue, 1, Len(receiver_func_queue) - 1)
  /\ handled' = IF receiver_func = NoHandler
                  THEN handled
                  ELSE Append(handled,
                              receiver_func_queue[Len(receiver_func_queue)])
  /\ UNCHANGED << incoming_events_queue, outgoing_events_queue,
                  registered_response_callbacks, queues, receiver_func,
                  broker_host, dispatcher, sender, transmitted, th, posted,
                  failed, response,
                  other >>

\* Client.listen_forever, lines 465-471: an event is taken from the handler
\* queue and passed to the handler (handled is the sequence of the handler's
\* calls), or discarded when no handler is registered.
listen_forever ==
  /\ receiver_func_queue # << >>
  /\ receiver_func_queue' = Tail(receiver_func_queue)
  /\ handled' = IF receiver_func = NoHandler
                  THEN handled
                  ELSE Append(handled, Head(receiver_func_queue))
  /\ UNCHANGED << incoming_events_queue, outgoing_events_queue,
                  registered_response_callbacks, queues, receiver_func,
                  broker_host, dispatcher, sender, transmitted, th, posted,
                  failed, response,
                  other >>

\* -------------------------------------------------------------------- time

\* A caller sits in a blocking call that has nothing to return yet.
Blocked(c) ==
  \/ /\ th[c].pc = "await_get"
     /\ queues[th[c].response_queue] = << >>
     /\ th[c].remain > 0
  \/ /\ th[c].pc = "flag_wait"
     /\ th[c].called = 0
     /\ th[c].remain > 0

Min(S) == CHOOSE x \in S : \A y \in S : x <= y

\* How far time may advance: a quantum, but not past the nearest deadline.
Step == Min({Quantum} \cup {th[c].remain : c \in {x \in Callers : Blocked(x)}})

Tick ==
  /\ \E c \in Callers : Blocked(c)
  /\ \A c \in Callers : InCall(c) => Blocked(c)
  /\ dispatcher.pc # "put"
  /\ th' = [c \in Callers |->
              IF Blocked(c)
                THEN [th[c] EXCEPT !.remain = @ - Step, !.elapsed = @ + Step]
                ELSE th[c]]
  /\ UNCHANGED << incoming_events_queue, outgoing_events_queue,
                  registered_response_callbacks, queues, receiver_func,
                  receiver_func_queue, broker_host, dispatcher, sender,
                  transmitted, posted,
                  handled, failed, response,
                  other >>

\* ----------------------------------------------------------- specification

\* The steps of the background threads, of the environment and of time.
Background ==
  \/ SetEventHandler
  \/ ConnectBroker
  \/ DispatchDiscard
  \/ DispatchMatch
  \/ DispatchForward
  \/ DispatchPut
  \/ DispatchKeyError
  \/ SenderForward
  \/ SenderFail
  \/ SenderCrash
  \/ Listener
  \/ Tick

\* The steps of a caller inside __await_event.
AwaitEvent ==
  \/ \E c \in Callers : AwaitCheck(c)
  \/ \E c \in Callers : AwaitInsert(c)
  \/ \E c \in Callers : AwaitRead(c)
  \/ \E c \in Callers : AwaitReadKeyError(c)
  \/ \E c \in Callers : AwaitGet(c)
  \/ \E c \in Callers : AwaitTimeout(c)
  \/ \E c \in Callers : AwaitDel(c)
  \/ \E c \in Callers : AwaitDelKeyError(c)

\* Callers use send_event.
Next ==
  \/ \E c \in Callers, a \in SendArgs :
       \E rt \in TopicsOf(c) :
         send_event(c, RequestEvent(c, a.response_requested, rt), a.callback)
  \/ AwaitEvent
  \/ Background

Spec == Init /\ [][Next]_vars

\* Caller 1 uses send_event_and_await_response while the other callers use
\* send_event with a callback.
NextSync ==
  \/ \E t \in Timeouts :
       send_event_and_await_response(1, RequestEvent(1, TRUE, "R"), t)
  \/ \E c \in Callers \ {1}, rt \in ResponseTopics :
       send_event(c, RequestEvent(c, TRUE, rt), TRUE)
  \/ \E c \in Callers : FlagWaitReturn(c)
  \/ \E c \in Callers : FlagWaitTimeout(c)
  \/ AwaitEvent
  \/ Background

SpecSync == Init /\ [][NextSync]_vars

\* The correlator alone: callers make correlated sends with a callback, the
\* dispatcher routes what the listener accepts, time passes.  The outgoing
\* side is left out: the listener accepts events of every topic at any time
\* whether or not a request was transmitted, so the waiters and the
\* dispatcher behave here as they do under Spec.
NextCorrelator ==
  \/ \E c \in Callers :
       \E rt \in TopicsOf(c) : send_event(c, RequestEvent(c, TRUE, rt), TRUE)
  \/ AwaitEvent
  \/ SetEventHandler
  \/ DispatchDiscard
  \/ DispatchMatch
  \/ DispatchForward
  \/ DispatchPut
  \/ DispatchKeyError
  \/ Listener
  \/ Tick

SpecCorrelator == Init /\ [][NextCorrelator]_vars

\* The inbound side with the application's loop: the correlator, and
\* listen_forever handing what the dispatcher forwarded to the handler.
NextHandler ==
  \/ NextCorrelator
  \/ listen_forever

SpecHandler == Init /\ [][NextHandler]_vars

\* The outbound side alone: every thread makes a plain send, the first
\* thread makes several one after the other, connect_broker is called at
\* some time, the sender drains the queue.
NextOutbound ==
  \/ \E c \in Callers :
       send_event(c, OutboundEvent(c, th[c].calls + 1), FALSE)
  \/ send_event_returns(1)
  \/ ConnectBroker
  \/ SenderForward
  \/ SenderFail
  \/ SenderCrash

SpecOutbound == Init /\ [][NextOutbound]_vars

\* The outbound side with both kinds of event: threads send Events and
\* BrokerEvents, connect_broker is called at some time, the sender drains
\* the queue.
NextDestination ==
  \/ \E c \in Callers :
       send_event(c, OutboundEvent(c, th[c].calls + 1), FALSE)
  \/ \E c \in Callers :
       send_event(c, BrokerEvent(c, th[c].calls + 1, PeerAddress), FALSE)
  \/ send_event_returns(1)
  \/ ConnectBroker
  \/ SenderForward
  \/ SenderFail
  \/ SenderCrash

SpecDestination == Init /\ [][NextDestination]_vars

\* The subscription registry: threads subscribe and unsubscribe, the first
\* thread several times, connect_broker is called at some time, the sender
\* drains the queue over a network that does not fail.
NextSubscribe ==
  \/ \E c \in Callers, topics \in TopicLists : _subscribe_topics(c, topics)
  \/ \E c \in Callers, topics \in TopicLists : _unsubscribe_topics(c, topics)
  \/ send_event_returns(1)
  \/ ConnectBroker
  \/ SenderForward
  \/ SenderCrash

SpecSubscribe == Init /\ [][NextSubscribe]_vars

\* Event objects: threads construct events from any data; the first thread
\* passes its events to send_event and goes on to construct the next.
NextConstruct ==
  \/ \E c \in Callers, data \in EventData : NewEvent(c, data)
  \/ \E cb \in BOOLEAN : send_constructed_event(1, cb)
  \/ send_event_returns(1)

SpecConstruct == Init /\ [][NextConstruct]_vars

\* Two clients in one process: the first thread makes a correlated send
\* through the first client, whose listener accepts the events; both
\* clients' handlers are set and both clients connect to their brokers at
\* some time; the senders and dispatchers of both run.  No wait lasts 30
\* seconds and no post fails.
NextTwoClients ==
  \/ send_event(1, RequestEvent(1, TRUE, "R"), TRUE)
  \/ AwaitCheck(1)
  \/ AwaitInsert(1)
  \/ AwaitRead(1)
  \/ AwaitGet(1)
  \/ AwaitDel(1)
  \/ SetEventHandler
  \/ ConnectBroker
  \/ DispatchDiscard
  \/ DispatchMatch
  \/ DispatchForward
  \/ DispatchPut
  \/ DispatchKeyError
  \/ SenderForward
  \/ SenderCrash
  \/ Listener
  \/ OtherSetEventHandler
  \/ OtherConnectBroker
  \/ OtherSenderForward
  \/ OtherSenderCrash
  \/ OtherDispatchDiscard
  \/ OtherDispatchMatch
  \/ OtherDispatchForward
  \/ OtherDispatchPut
  \/ OtherDispatchKeyError

SpecTwoClients == Init /\ [][NextTwoClients]_vars

\* The listener with what follows it: any POST arrives, the dispatcher
\* discards or forwards the accepted events (no call is in progress), and
\* listen_forever hands them to the handler.
NextListener ==
  \/ \E req \in Requests : do_POST_request(req)
  \/ SetEventHandler
  \/ DispatchDiscard
  \/ DispatchForward
  \/ listen_forever

SpecListener == Init /\ [][NextListener]_vars

\* The correlator with every kind of argument to send_event: with or
\* without a callback, requesting a response or not, with or without a
\* response topic.  These are the behaviours in which no wait lasts 30
\* seconds: time does not pass.
NextChecks ==
  \/ \E c \in Callers, rr \in BOOLEAN, cb \in BOOLEAN :
       \E rt \in {NoTopic} \cup TopicsOf(c) :
         send_event(c, RequestEvent(c, rr, rt), cb)
  \/ \E c \in Callers : AwaitCheck(c)
  \/ \E c \in Callers : AwaitInsert(c)
  \/ \E c \in Callers : AwaitRead(c)
  \/ \E c \in Callers : AwaitReadKeyError(c)
  \/ \E c \in Callers : AwaitGet(c)
  \/ \E c \in Callers : AwaitDel(c)
  \/ \E c \in Callers : AwaitDelKeyError(c)
  \/ SetEventHandler
  \/ DispatchDiscard
  \/ DispatchMatch
  \/ DispatchForward
  \/ DispatchPut
  \/ DispatchKeyError
  \/ Listener

SpecChecks == Init /\ [][NextChecks]_vars

\* ------------------------------------------------------------------ claims

\* No other send names the response topic of caller c's send: the discipline
\* the correlator asks of its callers (one outstanding wait per topic).
Alone(c) == \A d \in Callers \ {c} : WaitTopic(d) # WaitTopic(c)

C2_TimeoutRemovesEntry ==
  \A c \in Callers :
    th[c].wait = "timeout" =>
      \/ ~InTable(WaitTopic(c))
      \/ WaitPending(WaitTopic(c))

\* C3: an event with topic R that arrives and is dispatched after a wait on R
\* has timed out, while no wait on R is under way, is never handed to a
\* waiter.
C3_LateEventDropped ==
  \A c \in Callers : ~th[c].response_event.late

\* C4: when send_event raises ResponseCallbackError for an event that does
\* not request a response, the event is neither on the outgoing queue nor
\* transmitted.
C4_RejectedEventNotEnqueued ==
  \A c \in Callers :
    (th[c].outcome = "ResponseCallbackError" /\ ~response_requested(th[c].event)) =>
      /\ \A i \in 1..Len(outgoing_events_queue) :
           outgoing_events_queue[i] # th[c].event
      /\ \A i \in 1..Len(transmitted) : transmitted[i].event # th[c].event

\* C5: the response to a correlated send never reaches the queue of the
\* application handler while the sender of the request has not yet
\* registered its wait.
C5_ResponseNotMisrouted ==
  \A c \in Callers :
    th[c].pc \in {"await_check", "await_insert"} =>
      \A i \in 1..Len(receiver_func_queue) : receiver_func_queue[i].re # c

\* C6: send_event_and_await_response returns the response event whenever an
\* event with the response topic was dispatched before timeout had elapsed
\* since the call (for a send that is alone on its response topic).
C6_ReturnsResponseWithinTimeout ==
  \A c \in Callers :
    ( /\ th[c].kind = "send_event_and_await_response"
      /\ th[c].pc = "done"
      /\ Alone(c)
      /\ th[c].dispatchedAt >= 0
      /\ th[c].dispatchedAt < th[c].timeout ) =>
        /\ th[c].outcome = "returned"
        /\ th[c].response_event # NoEvent

\* C7: send_event_and_await_response blocks its caller for at most timeout,
\* and never returns a response that was dispatched after timeout elapsed.
C7_BlocksAtMostTimeout ==
  \A c \in Callers :
    th[c].kind = "send_event_and_await_response" =>
      /\ th[c].elapsed <= th[c].timeout
      /\ th[c].outcome = "returned" => th[c].dispatchedAt <= th[c].timeout

\* C8: send_event with a callback does not block its caller: no time passes
\* for the caller inside the call.
C8_SendEventDoesNotBlock ==
  \A c \in Callers :
    (th[c].kind = "send_event" /\ th[c].callback) =>
      /\ ~Blocked(c)
      /\ th[c].elapsed = 0

C10_EntryRemovedExactlyOnce ==
  \A c \in Callers :
    ~(th[c].outcome = "KeyError" /\ th[c].wait = "event")

\* C11: at most one waiter is blocked on the response queue of a response
\* topic: no two callers sit in get(timeout=30) of line 185 on the queue of
\* the same topic at the same time.
C11_AtMostOneWaiterPerSlot ==
  \A c \in Callers : \A d \in Callers \ {c} :
    ~ /\ th[c].pc = "await_get"
      /\ th[d].pc = "await_get"
      /\ WaitTopic(c) = WaitTopic(d)
      /\ th[c].response_queue = th[d].response_queue

\* C12: once a waiter on R has taken its event and no new wait on R is under
\* way, the next event with topic R that the dispatcher takes from the
\* incoming queue (a handler being registered) goes to the queue of the
\* application handler, not to the response queue of the old waiter.
C12_SecondEventGoesToHandler ==
  [][ \A c \in Callers :
        ( /\ th[c].wait = "event"
          /\ ~WaitPending(WaitTopic(c))
          /\ receiver_func # NoHandler
          /\ dispatcher.pc = "get"
          /\ incoming_events_queue # << >>
          /\ Head(incoming_events_queue).topic = WaitTopic(c)
          /\ incoming_events_queue' = Tail(incoming_events_queue) ) =>
            /\ receiver_func_queue' =
                 Append(receiver_func_queue, Head(incoming_events_queue))
            /\ dispatcher'.pc = "get" ]_vars

\* C13: while no handler is registered nothing has been routed (the handler
\* queue and every response queue are empty, the dispatcher holds no event),
\* and a step in which the dispatcher takes an event from the incoming queue
\* changes nothing else: the event is not put on the handler queue nor on a
\* response queue, and no waiter's state changes, whatever waits are pending.
C13_DiscardedWithoutHandler ==
  /\ [](receiver_func = NoHandler =>
          /\ receiver_func_queue = << >>
          /\ \A q \in 1..Len(queues) : queues[q] = << >>
          /\ dispatcher.pc = "get")
  /\ [][ ( /\ receiver_func = NoHandler
            /\ incoming_events_queue # << >>
            /\ incoming_events_queue' = Tail(incoming_events_queue) ) =>
              /\ receiver_func_queue' = receiver_func_queue
              /\ queues' = queues
              /\ dispatcher' = dispatcher
              /\ th' = th ]_vars

\* C13's case: with no handler registered the dispatcher has discarded an
\* event (everything posted but one event is gone from the incoming queue),
\* and the next event it takes has the topic of a wait that is pending.
C13_Witness ==
  /\ receiver_func = NoHandler
  /\ posted = MaxPosts
  /\ Len(incoming_events_queue) = 1
  /\ dispatcher.pc = "get"
  /\ \E c \in Callers :
       /\ th[c].pc = "await_get"
       /\ queues[th[c].response_queue] = << >>
       /\ InTable(WaitTopic(c))
       /\ Head(incoming_events_queue).topic = WaitTopic(c)

\* The events on their way to the handler and those it was called with, in
\* the order of the hand-off.
HandlerPath == handled \o receiver_func_queue

\* The events handed to waiters: those lying in response queues and those
\* taken by a waiter.
WaiterIds ==
  UNION {{queues[q][i].id : i \in 1..Len(queues[q])} : q \in 1..Len(queues)}
    \cup {th[c].response_event.id : c \in {x \in Callers : th[x].wait = "event"}}

\* C14: with a handler registered an event the dispatcher takes goes to the
\* waiter when a wait on its topic is pending (and not to the handler), and
\* to the handler queue when no wait on its topic is pending; no event is
\* with the handler twice, and none is with the handler and with a waiter.
C14_ConsumedOnceByOneConsumer ==
  /\ [](/\ \A i, j \in 1..Len(HandlerPath) :
             HandlerPath[i].id = HandlerPath[j].id => i = j
         /\ \A k \in 1..Len(HandlerPath) : HandlerPath[k].id \notin WaiterIds)
  /\ [][ ( /\ receiver_func # NoHandler
            /\ dispatcher.pc = "get"
            /\ incoming_events_queue # << >>
            /\ incoming_events_queue' = Tail(incoming_events_queue) ) =>
              IF WaitPending(Head(incoming_events_queue).topic)
                THEN /\ receiver_func_queue' = receiver_func_queue
                     /\ dispatcher' =
                          [pc |-> "put", event |-> Head(incoming_events_queue)]
                ELSE /\ receiver_func_queue' =
                          Append(receiver_func_queue,
                                 Head(incoming_events_queue))
                     /\ dispatcher' = dispatcher ]_vars

\* C15: the events that reach the handler are handled in the order in which
\* the listener put them on the incoming queue (the listener numbers the
\* events it puts, see do_POST): along the handler's calls followed by the
\* handler queue the numbers grow, and every handled event was posted.
C15_HandlerFifoEndToEnd ==
  /\ \A i, j \in 1..Len(HandlerPath) :
       i < j => HandlerPath[i].id < HandlerPath[j].id
  /\ \A k \in 1..Len(HandlerPath) : HandlerPath[k].id \in 1..posted

\* C15's case: the handler has been called with two events, while a third
\* party (a waiter) may have taken others in between.
C15_Witness ==
  /\ Len(handled) >= 2
  /\ handled[1].id < handled[2].id

\* The events the sender has posted, in the order of the posts.
TransmittedEvents == [i \in 1..Len(transmitted) |-> transmitted[i].event]

\* How often the n-th event of caller c occurs in a sequence of events.
Count(seq, c, n) ==
  Cardinality({i \in 1..Len(seq) : seq[i].id = c /\ seq[i].payload = n})

\* The events of caller c occur in seq in the order of its calls.
InCallOrder(seq, c) ==
  \A i, j \in 1..Len(seq) :
    (i < j /\ seq[i].id = c /\ seq[j].id = c) =>
      seq[i].payload < seq[j].payload

\* C16: with threads making plain sends at the same time, every call has
\* added exactly one event, and that event is either still on the outgoing
\* queue or has been posted by the sender exactly once (successfully or
\* not); each thread's events are queued and posted in the order of the
\* thread's calls.
C16_EachSendProcessedOnceInOrder ==
  \A c \in Callers :
    /\ \A n \in 1..MaxSends :
         Count(outgoing_events_queue, c, n) + Count(TransmittedEvents, c, n)
           + Count(failed, c, n) = IF n <= th[c].calls THEN 1 ELSE 0
    /\ InCallOrder(outgoing_events_queue, c)
    /\ InCallOrder(TransmittedEvents \o outgoing_events_queue, c)
    /\ InCallOrder(failed \o outgoing_events_queue, c)

ExpectedResponse(req) ==
  IF req.path # EventPath THEN Response(404, "Not Found")
  ELSE IF req.body.json \in {"undecodable", "malformed"}
    THEN Response(400, "Invalid JSON")
  ELSE IF req.body.json = "object"
            /\ (req.body.event \in {"absent", "null"}
                 \/ req.body.payload \in {"absent", "null"})
    THEN Response(400, "Missing event or payload")
  ELSE IF req.body.json = "object" /\ req.body.event = "object"
            /\ req.body.topic \in {"absent", "null"}
    THEN Response(400, "Missing topic")
  ELSE Response(200, "{}")

\* C18: every POST that carries its Content-Length is answered, and with the
\* answer the rule names: 404 off /event, else 400 Invalid JSON for a body
\* that is no JSON, 400 Missing event or payload, 400 Missing topic, and 200
\* for every other body.
C18_ListenerAnswersByRule ==
  [][ \A req \in Requests :
        (req.content_length /\ do_POST_request(req)) =>
          response' = ExpectedResponse(req) ]_vars

\* C19: a POST that is answered 200 has put exactly one event, with the
\* posted topic, at the tail of the incoming queue; a POST with any other
\* outcome leaves the incoming queue as it was; and the incoming queue never
\* grows but by one event in a step that answers 200.
C19_EnqueuedIffOk ==
  [][ /\ \A req \in Requests :
           do_POST_request(req) =>
             IF response'.status = 200
               THEN /\ Len(incoming_events_queue') =
                         Len(incoming_events_queue) + 1
                    /\ SubSeq(incoming_events_queue', 1,
                              Len(incoming_events_queue)) =
                         incoming_events_queue
                    /\ incoming_events_queue'[Len(incoming_events_queue')].topic
                         = req.body.topic
               ELSE incoming_events_queue' = incoming_events_queue
      /\ Len(incoming_events_queue') > Len(incoming_events_queue) =>
           /\ response'.status = 200
           /\ Len(incoming_events_queue') = Len(incoming_events_queue) + 1
    ]_vars

\* C19's case: a POST with topic /x was answered 200 and its event lies on
\* the incoming queue; a later POST was answered 400 or 404 and the queue
\* still holds that one event only.
C19_Witness ==
  /\ response.status \in {400, 404}
  /\ posted = 1
  /\ Len(incoming_events_queue) = 1
  /\ incoming_events_queue[1].topic = "/x"

ControlEventOf(reg, dereg) ==
  \A c \in Callers :
    th[c].kind \in {"subscribe_topics", "unsubscribe_topics"} =>
      /\ th[c].pc = "done"
      /\ th[c].outcome = "returned"
      /\ th[c].wait = "none"
      /\ th[c].response_queue = 0
      /\ th[c].event.topic =
           (IF th[c].kind = "subscribe_topics" THEN reg ELSE dereg)
      /\ th[c].event.topics = th[c].arg
      /\ th[c].event.eventHandler = CallbackAddress
      /\ ~th[c].event.response_requested

\* The step in which a thread calls subscribe or unsubscribe appends exactly
\* its one event to the outgoing queue and leaves the table and the response
\* queues alone.
ControlEventPut ==
  \A c \in Callers :
    ( /\ th[c].pc = "idle"
      /\ th'[c].kind \in {"subscribe_topics", "unsubscribe_topics"} ) =>
        /\ outgoing_events_queue' =
             Append(outgoing_events_queue, th'[c].event)
        /\ registered_response_callbacks' = registered_response_callbacks
        /\ queues' = queues

ConnectBrokerStep ==
  (broker_host' # broker_host) =>
    /\ broker_host' = BrokerAddress
    /\ Len(outgoing_events_queue') = Len(outgoing_events_queue) + 1
    /\ SubSeq(outgoing_events_queue', 1, Len(outgoing_events_queue)) =
         outgoing_events_queue
    /\ LET e == outgoing_events_queue'[Len(outgoing_events_queue')]
       IN /\ e.topic = RegisterModuleTopic
          /\ ~e.response_requested
          /\ e.topics = << "*" >>
    /\ registered_response_callbacks' = registered_response_callbacks
    /\ queues' = queues
    /\ th' = th

\* A transmission after connect_broker of an event without destination goes
\* to the stored address.
TransmittedToStored ==
  ( /\ broker_host # NoDest
    /\ Len(transmitted') = Len(transmitted) + 1
    /\ ~IsBrokerEvent(transmitted'[Len(transmitted')].event) ) =>
      /\ broker_host' = broker_host
      /\ transmitted'[Len(transmitted')].destination = broker_host

C24_EventConstruction ==
  \A c \in Callers :
    (th[c].kind = "Event" /\ th[c].pc = "done") =>
      /\ (th[c].data.topic = "absent" \/ th[c].data.payload = "absent") =>
           /\ th[c].outcome \in {"ValueError", "TypeError"}
           /\ th[c].event = NoEvent
      /\ th[c].outcome = "returned" <=>
           /\ th[c].data.event = "object"
           /\ th[c].data.topic # "absent"
           /\ th[c].data.payload # "absent"
      /\ th[c].outcome = "returned" =>
           /\ th[c].event # NoEvent
           /\ th[c].event.topic \in {RequestTopic, NoTopic}
      /\ th[c].outcome # "returned" => th[c].event = NoEvent

\* C24's case: one thread's data has a header with a topic and no payload and
\* its construction failed, another thread's data has all three and its
\* construction succeeded.
C24_Witness ==
  \E c \in Callers : \E o \in Callers :
    /\ th[c].kind = "Event"
    /\ th[c].data.event = "object"
    /\ th[c].data.topic = RequestTopic
    /\ th[c].data.payload = "absent"
    /\ th[c].outcome = "ValueError"
    /\ th[o].kind = "Event"
    /\ th[o].data.payload = "present"
    /\ th[o].outcome = "returned"
    /\ th[o].event.topic = RequestTopic

\* C25: the Inbound Dispatcher loop never stops: under every interleaving
\* with waiter threads that remove correlator entries, the dispatcher's
\* thread is alive to take the next event from the incoming queue.
C25_DispatcherNeverStops == dispatcher.pc # "dead"

\* C26: the Outbound Sender loop never stops: whatever happened to earlier
\* events, also to one without destination taken before connect_broker, the
\* sender's thread is alive to take and attempt every event put on the
\* outgoing queue.
C26_SenderNeverStops == sender # "dead"

\* C27: an event whose header omits response_requested is treated as not
\* requesting a response: send_event with a callback on such an event raises
\* ResponseCallbackError, as it does for response_requested = false.
C27_OmittedMeansNotRequested ==
  \A c \in Callers :
    ( /\ th[c].kind = "send_event"
      /\ th[c].pc = "done"
      /\ th[c].callback
      /\ th[c].data.event = "object"
      /\ th[c].data.response_requested \in {"absent", "false"} ) =>
        th[c].outcome = "ResponseCallbackError"

\* An event was enqueued through the second client.
EnqueuedThroughOther(e) == e.eventHandler = OtherCallbackAddress

\* C28: two Client instances in one process are isolated: an event enqueued
\* through client A is taken only by A's sender and sent to A's broker
\* address, an event received by A's listener is dispatched only by A's
\* dispatcher, and a wait registered through A is not resolved by B.
C28_ClientsIsolated ==
  /\ \A e \in other.sent : EnqueuedThroughOther(e)
  /\ \A x \in other.transmitted : EnqueuedThroughOther(x.event)
  /\ \A i \in 1..Len(transmitted) :
       ~EnqueuedThroughOther(transmitted[i].event) =>
         transmitted[i].destination = BrokerAddress
  /\ other.took = {}
  /\ other.resolved = {}

====
